---- MODULE Spec2Model ----
(***************************************************************************)
(* A model of src/datasource.go, the Grafana backend datasource for OCI    *)
(* monitoring: the Query router and its lazy client bootstrap, the         *)
(* paginated searchHelper, the compartment resolver getCompartments with   *)
(* its cache, and the series naming of queryResponse.                      *)
(*                                                                         *)
(* Strings the code concatenates or matches are sequences of one-character *)
(* strings; strings it only compares or copies are TLA+ strings.           *)
(***************************************************************************)
EXTENDS Integers, Sequences, FiniteSets, TLC

VARIABLES
    o,        \* the OCIDatasource instance: its fields
    now,      \* the wall clock read by time.Now(), in seconds
    last,     \* what the last Query call did: request, calls issued, response
    hist,     \* history of the instance: requests handled, last cache rebuild
    sh,       \* searchHelper: its locals and position
    srv,      \* the list-metrics service searchHelper talks to
    gc,       \* getCompartments: its locals and position
    listing,  \* the identity service's answer to get-tenancy / list-compartments
    nm        \* queryResponse's naming of one metric item

vars == <<o, now, last, hist, sh, srv, gc, listing, nm>>

----------------------------------------------------------------------------
(* Bounds of the model *)

MaxPages == 23          \* the longest finite listing the metrics service serves
ItemCycle == 3          \* page p carries p % ItemCycle items

(* Constants of the program *)

MAX_PAGES_TO_FETCH == 20
cacheRefreshTime == 60  \* time.Minute, in seconds

----------------------------------------------------------------------------
(* Generic helpers *)

Range(s) == {s[i] : i \in DOMAIN s}

RECURSIVE Flatten(_)
Flatten(ss) == IF ss = <<>> THEN <<>> ELSE Head(ss) \o Flatten(Tail(ss))

\* all orders in which a range over a Go map with key set S may visit its keys
Orders(S) ==
    {f \in [1..Cardinality(S) -> S] : \A i, j \in DOMAIN f : i # j => f[i] # f[j]}

----------------------------------------------------------------------------
(* Regions, contexts *)

Regions == {"phx", "us-ashburn-1"}

\* common.StringToRegion: a short code becomes the region's identifier, any
\* other string is taken as the identifier itself
StringToRegion(r) == IF r = "phx" THEN "us-phoenix-1" ELSE r

\* the context of the k-th request an instance handles: the host makes one
\* for each call of Query
Context(k) == k
Background == 0

\* the region an SDK client carries until SetRegion is called on it: the one
\* its configuration provider names
ProviderRegion == "provider-region"
NoRegion == "unset"

SetRegion(client, reg) == [client EXCEPT !.region = reg, !.setInRequest = TRUE]

\* one outbound API call, as the service sees it
Call(api, client, ctx, want, page) ==
    [api |-> api, ctx |-> ctx, region |-> client.region,
     regionSet |-> client.setInRequest, want |-> StringToRegion(want),
     page |-> page]

----------------------------------------------------------------------------
(* The list-metrics service and searchHelper *)

NilPage == 0    \* a nil *string page cursor

\* the items page p carries: p % ItemCycle of them, each named by page and rank
PageItems(p) == [k \in 1..(p % ItemCycle) |-> <<p, k>>]

\* ListMetrics as served by s = [numPages, endless, failAt] to a request
\* carrying cursor `page`, as the callNo-th call of the helper
ListMetrics(s, page, callNo) ==
    LET p == IF page = NilPage THEN 1 ELSE page
    IN  [err   |-> (callNo = s.failAt),
         Items |-> PageItems(p),
         OpcNextPage |-> IF s.endless \/ p < s.numPages THEN p + 1 ELSE NilPage]

\* searchHelper's locals before the first iteration of its loop
searchHelperStart(client) ==
    [pc |-> "loop", items |-> <<>>, page |-> NilPage, pageNumber |-> 0,
     calls |-> <<>>, served |-> <<>>, client |-> client]

\* a plausible slip: the cursor of the response is not carried to the next call
searchHelperIterNoCursor(st, s, ctx, region) ==
    LET client == SetRegion(st.client, StringToRegion(region))
        call   == Call("ListMetrics", client, ctx, region, st.page)
        res    == ListMetrics(s, st.page, Len(st.calls) + 1)
    IN  IF res.err
        THEN [st EXCEPT !.pc = "err", !.items = <<>>, !.client = client,
                        !.calls = Append(@, call)]
        ELSE IF res.OpcNextPage = NilPage \/ st.pageNumber >= MAX_PAGES_TO_FETCH
        THEN [st EXCEPT !.pc = "done", !.items = @ \o res.Items,
                        !.client = client, !.calls = Append(@, call),
                        !.served = Append(@, res)]
        ELSE [st EXCEPT !.items = @ \o res.Items, !.client = client,
                        !.calls = Append(@, call), !.served = Append(@, res),
                        !.pageNumber = @ + 1]

\* one iteration of searchHelper's for loop
searchHelperIter(st, s, ctx, region) ==
    LET client == SetRegion(st.client, StringToRegion(region))
        call   == Call("ListMetrics", client, ctx, region, st.page)
        res    == ListMetrics(s, st.page, Len(st.calls) + 1)
    IN  IF res.err
        THEN [st EXCEPT !.pc = "err", !.items = <<>>, !.client = client,
                        !.calls = Append(@, call)]
        ELSE IF res.OpcNextPage = NilPage \/ st.pageNumber >= MAX_PAGES_TO_FETCH
        THEN [st EXCEPT !.pc = "done", !.items = @ \o res.Items,
                        !.client = client, !.calls = Append(@, call),
                        !.served = Append(@, res)]
        ELSE [st EXCEPT !.items = @ \o res.Items, !.client = client,
                        !.calls = Append(@, call), !.served = Append(@, res),
                        !.page = res.OpcNextPage, !.pageNumber = @ + 1]

\* searchHelper run to its return
RECURSIVE searchHelperRun(_, _, _, _)
searchHelperRun(st, s, ctx, region) ==
    IF st.pc # "loop" THEN st
    ELSE searchHelperRun(searchHelperIter(st, s, ctx, region), s, ctx, region)

searchHelper(client, s, ctx, region) ==
    searchHelperRun(searchHelperStart(client), s, ctx, region)

\* the metrics services of the model: N pages, or a cursor on every page;
\* failAt = 0 is a service none of whose calls fails
Services ==
    [numPages : 1..MaxPages, endless : {FALSE}, failAt : 0..MaxPages]
    \cup [numPages : {0}, endless : {TRUE}, failAt : 0..MaxPages]

MadeClient == [made |-> TRUE, region |-> ProviderRegion, setInRequest |-> FALSE]
NoClient == [made |-> FALSE, region |-> NoRegion, setInRequest |-> FALSE]

Off == [pc |-> "off"]

InitSearch ==
    /\ srv \in Services
    /\ sh = [st |-> searchHelperStart(MadeClient), ctx |-> Context(1), region |-> "phx"]
    /\ o = Off /\ now = 0 /\ last = Off /\ hist = Off
    /\ gc = Off /\ listing = Off /\ nm = Off

searchHelperLoop ==
    /\ sh.st.pc = "loop"
    /\ sh' = [sh EXCEPT !.st = searchHelperIter(sh.st, srv, sh.ctx, sh.region)]
    /\ UNCHANGED <<o, now, last, hist, srv, gc, listing, nm>>

NextSearch == searchHelperLoop

SpecSearch == InitSearch /\ [][NextSearch]_vars

----------------------------------------------------------------------------
(* Claims about searchHelper, under SpecSearch *)

\* the service served every call of a finished run without an error
NoCallFailed == sh.st.pc = "done"

\* the items of pages 1..n, in page order
PagesItems(n) == Flatten([p \in 1..n |-> PageItems(p)])

\* the cursor each call carried is the one the call before it returned, and
\* the first call carried none
CursorsForwarded(st) ==
    \A i \in 1..Len(st.calls) :
        st.calls[i].page = IF i = 1 THEN NilPage ELSE st.served[i - 1].OpcNextPage

\* the helper returned the served pages' items, in call order
ItemsInCallOrder(st) ==
    st.items = Flatten([i \in 1..Len(st.served) |-> st.served[i].Items])

\* C2: against a service that returns a next-page cursor on every call,
\* searchHelper issues exactly MAX_PAGES_TO_FETCH (20) ListMetrics calls and
\* returns the items of those 20 pages.
C2_StopsAfter20Calls ==
    (NoCallFailed /\ srv.endless) =>
        /\ Len(sh.st.calls) = MAX_PAGES_TO_FETCH
        /\ sh.st.items = PagesItems(MAX_PAGES_TO_FETCH)

\* C10 as stated: for every N, a service of N pages gets exactly N calls, each
\* carrying the cursor the previous one returned, and the helper returns all
\* N pages' items in call order.
C10_AnyN ==
    (NoCallFailed /\ ~srv.endless) =>
        /\ Len(sh.st.calls) = srv.numPages
        /\ CursorsForwarded(sh.st)
        /\ ItemsInCallOrder(sh.st)
        /\ sh.st.items = PagesItems(srv.numPages)

\* C10 amended: the same for every N of at most MAX_PAGES_TO_FETCH pages.
C10_UpToPageCap ==
    (NoCallFailed /\ ~srv.endless /\ srv.numPages <= MAX_PAGES_TO_FETCH) =>
        /\ Len(sh.st.calls) = srv.numPages
        /\ CursorsForwarded(sh.st)
        /\ ItemsInCallOrder(sh.st)
        /\ sh.st.items = PagesItems(srv.numPages)

\* a finished run over a listing of exactly MAX_PAGES_TO_FETCH pages
C10_Witness ==
    /\ NoCallFailed /\ ~srv.endless /\ srv.numPages = MAX_PAGES_TO_FETCH
    /\ Len(sh.st.calls) = MAX_PAGES_TO_FETCH
    /\ Len(sh.st.items) > MAX_PAGES_TO_FETCH

----------------------------------------------------------------------------
(* The identity service's compartment listing and getCompartments *)

MaxCompartments == 3    \* compartments in a listing, besides the tenancy
MaxPageSize == 2        \* compartments the service puts on one page

TenancyOcid == 0        \* the root compartment's id; the others are 1..n

\* compartment and tenancy names
Names == {<<"a">>, <<"b">>, <<"a", "/", "b">>}

\* "(tenancy, shown as '/')"
TenancySuffix ==
    <<"(", "t", "e", "n", "a", "n", "c", "y", ",", " ", "s", "h", "o", "w",
      "n", " ", "a", "s", " ", "'", "/", "'", ")">>

\* identity.Compartment, the fields the code reads; of a compartment that is
\* not active it reads the lifecycle state alone, so one name and one parent
\* stand for all
Compartments(id) ==
    [Id : {id}, Name : Names, CompartmentId : (0..MaxCompartments) \ {id},
     active : {TRUE}]
    \cup {[Id |-> id, Name |-> <<"a">>, CompartmentId |-> TenancyOcid,
           active |-> FALSE]}

\* what the identity service holds: the tenancy's name and n compartments
Listings ==
    UNION {[tenancyName : {<<"b">>},
            items : {f \in [1..n -> UNION {Compartments(i) : i \in 1..n}] :
                        \A i \in 1..n : f[i].Id = i}] : n \in 0..MaxCompartments}

\* ListCompartments as served for cursor `page` (the number of compartments
\* already served) on a page of `size` compartments
ListCompartments(lst, page, size) ==
    LET from == page + 1
        to   == IF page + size < Len(lst.items) THEN page + size ELSE Len(lst.items)
    IN  [Items |-> SubSeq(lst.items, from, to),
         OpcNextPage |-> IF to < Len(lst.items) THEN to ELSE NilPage]

\* m[k] = v on a Go map
Put(m, k, v) == [x \in DOMAIN m \cup {k} |-> IF x = k THEN v ELSE m[x]]

EmptyMap == [x \in {} |-> TRUE]

\* getCompartments' locals on entry
gcStart(client) ==
    [pc |-> "tenancy", page |-> NilPage, client |-> client,
     mapFromIdToName |-> EmptyMap, mapFromIdToParentCmptId |-> EmptyMap,
     mapFromIdToFullCmptName |-> EmptyMap, m |-> EmptyMap, passes |-> 0]

\* GetTenancy and the seeding of the two maps with the root; the parent of the
\* root is "", here an id no compartment has
NoParent == 0 - 1

\* the GetTenancy call, as the service sees it
gcGetTenancyCall(st, region) ==
    Call("GetTenancy", st.client, Background, region, NilPage)

gcGetTenancy(st, lst, region, ok) ==
    IF ~ok THEN [st EXCEPT !.pc = "err"]
    ELSE [st EXCEPT
            !.pc = "list",
            !.mapFromIdToName = Put(@, TenancyOcid, lst.tenancyName),
            !.mapFromIdToParentCmptId = Put(@, TenancyOcid, NoParent),
            !.client = SetRegion(@, StringToRegion(region))]

\* the active compartments of one page recorded into the two maps
RECURSIVE gcRecord(_, _)
gcRecord(st, items) ==
    IF items = <<>> THEN st
    ELSE LET c == Head(items)
         IN  gcRecord(
                 IF c.active
                 THEN [st EXCEPT
                         !.mapFromIdToName = Put(@, c.Id, c.Name),
                         !.mapFromIdToParentCmptId = Put(@, c.Id, c.CompartmentId)]
                 ELSE st,
                 Tail(items))

\* the ListCompartments call of one iteration of the listing loop
gcListCall(st, ctx, region) ==
    Call("ListCompartments", st.client, ctx, region, st.page)

\* one iteration of the listing loop: the page of a ListCompartments call
gcListPage(st, lst, size, ok) ==
    LET res == ListCompartments(lst, st.page, size)
        rec == gcRecord(st, res.Items)
    IN  IF ~ok THEN [st EXCEPT !.pc = "err"]
        ELSE IF res.OpcNextPage = NilPage
        THEN [rec EXCEPT
                !.pc = "resolve",
                !.mapFromIdToFullCmptName =
                    Put(@, TenancyOcid, rec.mapFromIdToName[TenancyOcid] \o TenancySuffix)]
        ELSE [rec EXCEPT !.page = res.OpcNextPage]

\* a plausible slip: a nested compartment is named as if it sat under the root
gcResolveOneFlat(st, cmptId) ==
    LET full   == st.mapFromIdToFullCmptName
        parent == st.mapFromIdToParentCmptId[cmptId]
    IN  IF cmptId \in DOMAIN full THEN st
        ELSE IF parent = TenancyOcid \/ parent \in DOMAIN full
        THEN [st EXCEPT !.mapFromIdToFullCmptName =
                            Put(@, cmptId, <<"/">> \o st.mapFromIdToName[cmptId])]
        ELSE st

\* the body of the inner loop for one compartment id
gcResolveOne(st, cmptId) ==
    LET full   == st.mapFromIdToFullCmptName
        parent == st.mapFromIdToParentCmptId[cmptId]
    IN  IF cmptId \in DOMAIN full THEN st
        ELSE IF parent = TenancyOcid
        THEN [st EXCEPT !.mapFromIdToFullCmptName =
                            Put(@, cmptId, <<"/">> \o st.mapFromIdToName[cmptId])]
        ELSE IF parent \in DOMAIN full
        THEN [st EXCEPT !.mapFromIdToFullCmptName =
                            Put(@, cmptId, full[parent] \o <<"/">> \o st.mapFromIdToName[cmptId])]
        ELSE st

\* one full pass of the inner loop, visiting the ids in `order`
RECURSIVE gcVisit(_, _)
gcVisit(st, order) ==
    IF order = <<>> THEN st
    ELSE gcVisit(gcResolveOne(st, Head(order)), Tail(order))

gcResolvePass(st, order) == [gcVisit(st, order) EXCEPT !.passes = @ + 1]

\* the inversion into the result, the ids visited in `order`: a later id
\* overwrites an earlier one of the same full name
RECURSIVE gcInvert(_, _, _)
gcInvert(m, full, order) ==
    IF order = <<>> THEN m
    ELSE gcInvert(Put(m, full[Head(order)], Head(order)), full, Tail(order))

gcReturn(st, order) ==
    [st EXCEPT !.pc = "done",
               !.m = gcInvert(EmptyMap, st.mapFromIdToFullCmptName, order)]

\* the condition of the outer resolution loop
gcUnresolvedLeft(st) ==
    Cardinality(DOMAIN st.mapFromIdToFullCmptName)
        < Cardinality(DOMAIN st.mapFromIdToName)

\* passes of the resolution loop the model follows before it leaves a run
\* that no longer makes progress
MaxPasses == MaxCompartments + 2

InitCompartments ==
    /\ listing \in Listings
    /\ gc = [st |-> gcStart(MadeClient), region |-> "phx"]
    /\ o = Off /\ now = 0 /\ last = Off /\ hist = Off
    /\ sh = Off /\ srv = Off /\ nm = Off

getTenancy ==
    /\ gc.st.pc = "tenancy"
    /\ \E ok \in BOOLEAN :
          gc' = [gc EXCEPT !.st = gcGetTenancy(gc.st, listing, gc.region, ok)]
    /\ UNCHANGED <<o, now, last, hist, sh, srv, listing, nm>>

listCompartments ==
    /\ gc.st.pc = "list"
    /\ \E ok \in BOOLEAN, size \in 1..MaxPageSize :
          gc' = [gc EXCEPT !.st = gcListPage(gc.st, listing, size, ok)]
    /\ UNCHANGED <<o, now, last, hist, sh, srv, listing, nm>>

\* the ids the next pass finds unresolved
gcUnresolved(st) ==
    DOMAIN st.mapFromIdToParentCmptId \ DOMAIN st.mapFromIdToFullCmptName

\* a pass of the inner loop: the loop's body leaves a resolved id alone
\* wherever the range visits it, so an order of the unresolved ids stands for
\* every order of the map's keys that extends it
resolvePass ==
    /\ gc.st.pc = "resolve"
    /\ gcUnresolvedLeft(gc.st)
    /\ gc.st.passes < MaxPasses
    /\ \E order \in Orders(gcUnresolved(gc.st)) :
          gc' = [gc EXCEPT !.st = gcResolvePass(gc.st, order)]
    /\ UNCHANGED <<o, now, last, hist, sh, srv, listing, nm>>

returnCompartments ==
    /\ gc.st.pc = "resolve"
    /\ ~gcUnresolvedLeft(gc.st)
    /\ \E order \in Orders(DOMAIN gc.st.mapFromIdToFullCmptName) :
          gc' = [gc EXCEPT !.st = gcReturn(gc.st, order)]
    /\ UNCHANGED <<o, now, last, hist, sh, srv, listing, nm>>

NextCompartments ==
    \/ getTenancy
    \/ listCompartments
    \/ resolvePass
    \/ returnCompartments

SpecCompartments == InitCompartments /\ [][NextCompartments]_vars

----------------------------------------------------------------------------
(* Claims about getCompartments, under SpecCompartments *)

Listed == 1..Len(listing.items)
ActiveIds == {i \in Listed : listing.items[i].active}
ParentOf(i) == listing.items[i].CompartmentId

\* the ids k parent links above i, while the links stay inside the listing
RECURSIVE AncestorAt(_, _)
AncestorAt(i, k) ==
    IF k = 0 THEN i
    ELSE LET a == AncestorAt(i, k - 1)
         IN  IF a \in Listed THEN ParentOf(a) ELSE a

\* no compartment of the listing is its own ancestor
NoCycle == \A i \in Listed : \A k \in 1..Len(listing.items) : AncestorAt(i, k) # i

\* active compartments whose chain of parents reaches the tenancy through
\* active compartments only
RECURSIVE ReachableWithin(_)
ReachableWithin(k) ==
    IF k = 0 THEN {}
    ELSE LET R == ReachableWithin(k - 1)
         IN  {i \in ActiveIds : ParentOf(i) = TenancyOcid \/ ParentOf(i) \in R}

Reachable == ReachableWithin(Len(listing.items))

\* the full path of a reachable compartment, from the listing alone
RECURSIVE FullPath(_)
FullPath(i) ==
    IF ParentOf(i) = TenancyOcid THEN <<"/">> \o listing.items[i].Name
    ELSE FullPath(ParentOf(i)) \o <<"/">> \o listing.items[i].Name

RootKey == listing.tenancyName \o TenancySuffix

Ids(m) == {m[k] : k \in DOMAIN m}

\* no active compartment's name contains the separator, and no two active
\* compartments under one parent have the same name
NamesClean == \A i \in ActiveIds : "/" \notin Range(listing.items[i].Name)
SiblingNamesDistinct ==
    \A i, j \in ActiveIds :
        (i # j /\ ParentOf(i) = ParentOf(j)) =>
            listing.items[i].Name # listing.items[j].Name

Returned == gc.st.pc = "done"

\* C3 as stated: for a listing without cycles the returned map has exactly
\* one key per active reachable compartment id (the tenancy among them), no
\* two ids share a key, and every key begins with "/".
C3_OneSlashKeyPerId ==
    (Returned /\ NoCycle) =>
        /\ Ids(gc.st.m) = Reachable \cup {TenancyOcid}
        /\ Cardinality(DOMAIN gc.st.m) = Cardinality(Reachable) + 1
        /\ \A k \in DOMAIN gc.st.m : Head(k) = "/"

\* C3 amended: for a listing without cycles in which active siblings have
\* distinct names and no active name contains "/", the returned map has
\* exactly one key per active reachable compartment id and one for the
\* tenancy, no two ids share a key, every compartment's key is its full path
\* and begins with "/", and the tenancy's key is its name followed by
\* "(tenancy, shown as '/')".
C3_OneKeyPerId ==
    (Returned /\ NoCycle /\ NamesClean /\ SiblingNamesDistinct) =>
        /\ Ids(gc.st.m) = Reachable \cup {TenancyOcid}
        /\ Cardinality(DOMAIN gc.st.m) = Cardinality(Reachable) + 1
        /\ \A k \in DOMAIN gc.st.m :
              IF gc.st.m[k] = TenancyOcid THEN k = RootKey
              ELSE Head(k) = "/" /\ k = FullPath(gc.st.m[k])

\* a returned map for three active compartments, one nested two levels deep
C3_Witness ==
    /\ Returned /\ NoCycle /\ NamesClean /\ SiblingNamesDistinct
    /\ Cardinality(Reachable) = MaxCompartments
    /\ \E i \in Reachable : ParentOf(i) # TenancyOcid /\ ParentOf(ParentOf(i)) # TenancyOcid
    /\ Cardinality(DOMAIN gc.st.m) = MaxCompartments + 1

Unresolved(st) ==
    Cardinality(DOMAIN st.mapFromIdToName)
        - Cardinality(DOMAIN st.mapFromIdToFullCmptName)

\* C4: for a listing without cycles every full pass of the resolution loop
\* strictly reduces the number of unresolved ids, so the loop terminates, an
\* active compartment whose parent is never resolved being left out.
C4_EachPassResolves ==
    [][(NoCycle /\ gc.st.pc = "resolve" /\ gc'.st.passes = gc.st.passes + 1)
          => Unresolved(gc'.st) < Unresolved(gc.st)]_vars

----------------------------------------------------------------------------
(* queryResponse: the name of the series built from one metric item *)

MaxDims == 3    \* dimensions on one metric item

\* dimension keys: "aName", "Name", "-Name", "bNameX", "ad"
DimKeys ==
    {<<"a", "N", "a", "m", "e">>, <<"N", "a", "m", "e">>,
     <<"-", "N", "a", "m", "e">>, <<"b", "N", "a", "m", "e", "X">>,
     <<"a", "d">>}

\* dimension values: "", "v", "w"
DimValues == {<<>>, <<"v">>, <<"w">>}

\* the metric's name
BaseName == <<"C", "p", "u">>

\* the byte of each character the keys are made of
Code(c) ==
    CASE c = "-" -> 45 [] c = "N" -> 78 [] c = "X" -> 88 [] c = "a" -> 97
      [] c = "b" -> 98 [] c = "d" -> 100 [] c = "e" -> 101 [] c = "m" -> 109

\* \w of the regular expression: [0-9A-Za-z_]
IsWordChar(c) ==
    \/ Code(c) >= 48 /\ Code(c) <= 57
    \/ Code(c) >= 65 /\ Code(c) <= 90
    \/ Code(c) = 95
    \/ Code(c) >= 97 /\ Code(c) <= 122

\* regexp.MustCompile(`(?m)\w+Name`).MatchString(key): somewhere in the key a
\* word character is followed by "Name"
MatchString(key) ==
    \E i \in 1..Len(key) :
        /\ IsWordChar(key[i])
        /\ i + 4 <= Len(key)
        /\ SubSeq(key, i + 1, i + 4) = <<"N", "a", "m", "e">>

\* string comparison as sort.Strings makes it: byte by byte
RECURSIVE StrLess(_, _)
StrLess(x, y) ==
    IF y = <<>> THEN FALSE
    ELSE IF x = <<>> THEN TRUE
    ELSE IF Code(Head(x)) # Code(Head(y)) THEN Code(Head(x)) < Code(Head(y))
    ELSE StrLess(Tail(x), Tail(y))

RECURSIVE InsertSorted(_, _)
InsertSorted(x, sorted) ==
    IF sorted = <<>> THEN <<x>>
    ELSE IF StrLess(Head(sorted), x) THEN <<Head(sorted)>> \o InsertSorted(x, Tail(sorted))
    ELSE <<x>> \o sorted

\* sort.Strings(dimensionKeys)
RECURSIVE sortStrings(_)
sortStrings(keys) ==
    IF keys = <<>> THEN <<>> ELSE InsertSorted(Head(keys), sortStrings(Tail(keys)))

\* fmt.Sprintf("%s, {%s}", name, value)
Braced(name, value) == name \o <<",", " ", "{">> \o value \o <<"}">>

\* the range over item.Dimensions in `order`: a matching key's value is appended
RECURSIVE appendNamed(_, _, _)
appendNamed(name, dims, order) ==
    IF order = <<>> THEN name
    ELSE appendNamed(
             IF MatchString(Head(order)) THEN Braced(name, dims[Head(order)]) ELSE name,
             dims, Tail(order))

\* the fallback's loop over the sorted keys
RECURSIVE preDisplayName(_, _, _)
preDisplayName(pre, dims, keys) ==
    IF keys = <<>> THEN pre
    ELSE preDisplayName(
             IF pre = <<>> THEN dims[Head(keys)]
             ELSE pre \o <<",", " ">> \o dims[Head(keys)],
             dims, Tail(keys))

\* t.Name for one item of the response, its dimensions visited in `order`
seriesName(item, order) ==
    LET named == appendNamed(item.Name, item.Dimensions, order)
    IN  IF named = item.Name
        THEN Braced(named, preDisplayName(<<>>, item.Dimensions, sortStrings(order)))
        ELSE named

\* monitoring.MetricData, the fields the naming reads
MetricItems ==
    UNION {[Name : {BaseName}, Dimensions : [K -> DimValues]] :
              K \in {S \in SUBSET DimKeys : Cardinality(S) <= MaxDims}}

InitNaming ==
    /\ \E item \in MetricItems : nm = [pc |-> "item", item |-> item, name |-> <<>>]
    /\ o = Off /\ now = 0 /\ last = Off /\ hist = Off
    /\ sh = Off /\ srv = Off /\ gc = Off /\ listing = Off

nameSeries ==
    /\ nm.pc = "item"
    /\ \E order \in Orders(DOMAIN nm.item.Dimensions) :
          nm' = [nm EXCEPT !.pc = "named", !.name = seriesName(nm.item, order)]
    /\ UNCHANGED <<o, now, last, hist, sh, srv, gc, listing>>

NextNaming == nameSeries

SpecNaming == InitNaming /\ [][NextNaming]_vars

----------------------------------------------------------------------------
(* Claims about the series name, under SpecNaming *)

Dims == nm.item.Dimensions
Matching == {k \in DOMAIN Dims : MatchString(k)}

\* name followed by ", {value}" for each key of `order`
RECURSIVE EachBraced(_, _)
EachBraced(name, order) ==
    IF order = <<>> THEN name
    ELSE EachBraced(Braced(name, Dims[Head(order)]), Tail(order))

\* the values ", "-joined in the order of `keys`
RECURSIVE Joined(_)
Joined(keys) ==
    IF keys = <<>> THEN <<>>
    ELSE IF Len(keys) = 1 THEN Dims[keys[1]]
    ELSE Dims[Head(keys)] \o <<",", " ">> \o Joined(Tail(keys))

\* the keys in increasing order
ByKey ==
    CHOOSE f \in Orders(DOMAIN Dims) :
        \A i, j \in DOMAIN f : i < j => StrLess(f[i], f[j])

\* C8: the series name is the base name followed by ", {value}" for each
\* dimension whose key matches \w+Name, and exactly when no key matches it is
\* the base name followed by ", {" + all values ordered by key and joined by
\* ", " + "}".
C8_SeriesName ==
    nm.pc = "named" =>
        IF Matching # {}
        THEN \E order \in Orders(Matching) : nm.name = EachBraced(nm.item.Name, order)
        ELSE nm.name = Braced(nm.item.Name, Joined(ByKey))

----------------------------------------------------------------------------
(* getCompartments run to its return, for the request handlers *)

\* the ids of S in the order `perm` ranks them
InOrder(perm, S) == SelectSeq(perm, LAMBDA x : x \in S)

\* size: compartments per page; perm: the order map ranges visit ids in;
\* failAt: the call that fails (0: none). A pass that resolves nothing leaves
\* the loop's state as it found it, so the loop never exits: pc "hang".
\* The result is the locals at the return and the calls issued
RECURSIVE gcRun(_, _, _, _, _, _, _, _)
gcRun(st, calls, lst, ctx, region, size, perm, failAt) ==
    IF st.pc = "tenancy"
    THEN gcRun(gcGetTenancy(st, lst, region, failAt # Len(calls) + 1),
               Append(calls, gcGetTenancyCall(st, region)),
               lst, ctx, region, size, perm, failAt)
    ELSE IF st.pc = "list"
    THEN gcRun(gcListPage(st, lst, size, failAt # Len(calls) + 1),
               Append(calls, gcListCall(st, ctx, region)),
               lst, ctx, region, size, perm, failAt)
    ELSE IF st.pc = "resolve" /\ gcUnresolvedLeft(st)
    THEN LET nx == gcResolvePass(st, InOrder(perm, DOMAIN st.mapFromIdToParentCmptId))
         IN  IF nx.mapFromIdToFullCmptName = st.mapFromIdToFullCmptName
             THEN [st |-> [st EXCEPT !.pc = "hang"], calls |-> calls]
             ELSE gcRun(nx, calls, lst, ctx, region, size, perm, failAt)
    ELSE IF st.pc = "resolve"
    THEN [st |-> gcReturn(st, InOrder(perm, DOMAIN st.mapFromIdToFullCmptName)),
          calls |-> calls]
    ELSE [st |-> st, calls |-> calls]

getCompartments(client, lst, ctx, region, size, perm, failAt) ==
    gcRun(gcStart(client), <<>>, lst, ctx, region, size, perm, failAt)

----------------------------------------------------------------------------
(* The datasource instance: Query and the handlers it dispatches to *)

MaxBatch == 2       \* queries in one request
MaxRequests == 2    \* requests one instance handles in a run
MaxTime == 100      \* the last second of the clock
TickSeconds == 40   \* the clock's step

QueryTypes ==
    {"compartments", "dimensions", "namespaces", "resourcegroups", "regions",
     "search", "test", "metrics"}
LookupTypes == {"dimensions", "namespaces", "resourcegroups", "search"}
Environments == {"local", "OCI Instance", "cloud"}

\* a request: the host's context and the decoded queries; the host sends the
\* queries of one panel, of one type and environment
Requests(type, ctx) ==
    UNION {[ctx : {ctx},
            queries : [1..n -> [QueryType : {type}, Environment : {env},
                                Region : Regions]]] :
              n \in 1..MaxBatch, env \in Environments}

NilConfig == "nil"
Never == 0 - 1
IsZero(t) == t = 0

\* a plausible slip: an unknown environment falls back to the local provider
getConfigProviderLenient(environment, instanceOk) ==
    IF environment = "OCI Instance"
    THEN IF instanceOk THEN [provider |-> "instance principal", err |-> ""]
         ELSE [provider |-> NilConfig, err |-> "instance principal unavailable"]
    ELSE [provider |-> "default", err |-> ""]

\* getConfigProvider; instanceOk: whether the instance-principal provider
\* can be built where the plugin runs
getConfigProvider(environment, instanceOk) ==
    IF environment = "local" THEN [provider |-> "default", err |-> ""]
    ELSE IF environment = "OCI Instance"
    THEN IF instanceOk THEN [provider |-> "instance principal", err |-> ""]
         ELSE [provider |-> NilConfig, err |-> "instance principal unavailable"]
    ELSE [provider |-> NilConfig, err |-> "unknown environment type"]

\* the head of Query: the lazy construction of the two clients.
\* boot = [instanceOk, metricsOk, identityOk]: what the SDK constructors do
bootstrap(oo, environment, boot) ==
    IF oo.config # NilConfig
    THEN [o |-> oo, attempted |-> FALSE, err |-> "", panic |-> FALSE]
    ELSE LET cp == getConfigProvider(environment, boot.instanceOk)
         IN  IF cp.err # ""
             THEN [o |-> oo, attempted |-> TRUE,
                   err |-> "broken environment", panic |-> FALSE]
             ELSE IF ~boot.metricsOk
             THEN [o |-> oo, attempted |-> TRUE,
                   err |-> "error with client", panic |-> FALSE]
             ELSE IF ~boot.identityOk
             THEN [o |-> oo, attempted |-> TRUE, err |-> "", panic |-> TRUE]
             ELSE [o |-> [oo EXCEPT !.identityClient = MadeClient,
                                    !.metricsClient = MadeClient,
                                    !.config = cp.provider],
                   attempted |-> TRUE, err |-> "", panic |-> FALSE]

\* the first of the three constructions that fails, if any
Boots ==
    {[instanceOk |-> TRUE, metricsOk |-> TRUE, identityOk |-> TRUE],
     [instanceOk |-> FALSE, metricsOk |-> TRUE, identityOk |-> TRUE],
     [instanceOk |-> TRUE, metricsOk |-> FALSE, identityOk |-> TRUE],
     [instanceOk |-> TRUE, metricsOk |-> TRUE, identityOk |-> FALSE]}

\* the ghost flag of a client, cleared as a request arrives
Arrive(oo) ==
    [oo EXCEPT !.metricsClient.setInRequest = FALSE,
               !.identityClient.setInRequest = FALSE]

NoResp == [err |-> "", refId |-> "", rows |-> {}, results |-> <<>>]
ErrResp(e) == [NoResp EXCEPT !.err = e]

\* what a handler leaves: the instance, the calls it issued, its response,
\* whether it returned, and whether it replaced the compartment cache
Outcome(oo, calls, resp, status, rebuilt) ==
    [o |-> oo, calls |-> calls, resp |-> resp, status |-> status, rebuilt |-> rebuilt]

\* the identity service's listings the handlers meet: a tree with an
\* inactive leaf, and a listing with an active compartment under an inactive one
HandlerListings ==
    {[tenancyName |-> <<"a">>,
      items |-> <<[Id |-> 1, Name |-> <<"a">>, CompartmentId |-> 0, active |-> TRUE],
                  [Id |-> 2, Name |-> <<"b">>, CompartmentId |-> 1, active |-> TRUE],
                  [Id |-> 3, Name |-> <<"a">>, CompartmentId |-> 1, active |-> FALSE]>>],
     [tenancyName |-> <<"a">>,
      items |-> <<[Id |-> 1, Name |-> <<"a">>, CompartmentId |-> 0, active |-> FALSE],
                  [Id |-> 2, Name |-> <<"b">>, CompartmentId |-> 1, active |-> TRUE]>>]}

compartmentsResponse(oo, req, t, lst, size, perm, failAt) ==
    LET ts  == req.queries[1]
        run == getCompartments(oo.identityClient, lst, req.ctx, ts.Region,
                               size, perm, failAt)
        rows(m) == {<<k, m[k]>> : k \in DOMAIN m}
    IN  IF IsZero(oo.timeCacheUpdated) \/ t - oo.timeCacheUpdated > cacheRefreshTime
        THEN IF run.st.pc = "err"
             THEN Outcome([oo EXCEPT !.identityClient = run.st.client], run.calls,
                          ErrResp("this is what we were trying to get"), "up", FALSE)
             ELSE IF run.st.pc = "hang"
             THEN Outcome([oo EXCEPT !.identityClient = run.st.client], run.calls,
                          NoResp, "hung", FALSE)
             ELSE Outcome([oo EXCEPT !.identityClient = run.st.client,
                                     !.nameToOCID = run.st.m],
                          run.calls,
                          [NoResp EXCEPT !.refId = "compartments",
                                         !.rows = rows(run.st.m)],
                          "up", TRUE)
        ELSE Outcome(oo, <<>>,
                     [NoResp EXCEPT !.refId = "compartments",
                                    !.rows = rows(oo.nameToOCID)],
                     "up", FALSE)

\* the metrics services the lookup handlers meet: one page, two pages, and
\* two pages with the second call failing
HandlerServices ==
    {[numPages |-> 1, endless |-> FALSE, failAt |-> 0],
     [numPages |-> 2, endless |-> FALSE, failAt |-> 0],
     [numPages |-> 2, endless |-> FALSE, failAt |-> 2]}

\* the monitoring.Metric behind an item of a page: items of one rank carry one
\* metric name whatever their page; the second of a page has two dimensions
Metric(item) ==
    [Name |-> <<"m", item[2]>>,
     Namespace |-> <<"ns", item[1]>>,
     ResourceGroup |-> <<"rg", item[1], item[2]>>,
     Dimensions |-> IF item[2] = 2
                    THEN [d \in {"ad", "fd"} |-> item[1]]
                    ELSE [d \in {"ad"} |-> item[1]]]

\* the orders a range over item.Dimensions may take
DimensionOrders == {<<"ad", "fd">>, <<"fd", "ad">>}

\* dimensionResponse's rows: one "dimension=value" for each dimension of each
\* item, the dimensions of an item in the order the map range visits them
dimensionRows(items, perm) ==
    Flatten([i \in 1..Len(items) |->
                LET dims  == Metric(items[i]).Dimensions
                    order == InOrder(perm, DOMAIN dims)
                IN  [j \in 1..Len(order) |-> <<order[j], "=", dims[order[j]]>>]])

\* namespaceResponse's rows: the namespace of each item
namespaceRows(items) == [i \in 1..Len(items) |-> Metric(items[i]).Namespace]

\* resourcegroupsResponse's rows: the placeholder, then each item's group
resourcegroupRows(items) ==
    <<"NoResourceGroup">> \o [i \in 1..Len(items) |-> Metric(items[i]).ResourceGroup]

\* searchResponse's rows: each item's name, unless metricCache holds it
RECURSIVE searchRows(_, _, _)
searchRows(items, rows, metricCache) ==
    IF items = <<>> THEN rows
    ELSE LET name == Metric(Head(items)).Name
         IN  IF name \in metricCache
             THEN searchRows(Tail(items), rows, metricCache)
             ELSE searchRows(Tail(items), Append(rows, name), metricCache \cup {name})

\* the rows a lookup handler makes of the items of one query
lookupRows(type, items, perm) ==
    CASE type = "dimensions" -> dimensionRows(items, perm)
      [] type = "namespaces" -> namespaceRows(items)
      [] type = "resourcegroups" -> resourcegroupRows(items)
      [] OTHER -> searchRows(items, <<>>, {})

\* a plausible slip: the rows of a query are appended to the table's
RECURSIVE lookupLoopAppending(_, _, _, _, _, _)
lookupLoopAppending(acc, req, type, ss, perm, i) ==
    IF i > Len(req.queries) THEN [acc EXCEPT !.err = ""]
    ELSE LET ts  == req.queries[i]
             run == searchHelper(acc.client, ss[i], req.ctx, ts.Region)
         IN  IF run.pc = "err"
             THEN [acc EXCEPT !.client = run.client, !.calls = @ \o run.calls,
                              !.err = "list metrircs failed"]
             ELSE lookupLoopAppending(
                      [acc EXCEPT !.client = run.client,
                                  !.calls = @ \o run.calls,
                                  !.rows = @ \o lookupRows(type, run.items, perm)],
                      req, type, ss, perm, i + 1)

\* the loop over tsdbReq.Queries of dimensionResponse, namespaceResponse,
\* resourcegroupsResponse and searchResponse, from query i on; ss[i] is the
\* service query i meets. acc = [client, calls, rows]
RECURSIVE lookupLoop(_, _, _, _, _, _)
lookupLoop(acc, req, type, ss, perm, i) ==
    IF i > Len(req.queries) THEN [acc EXCEPT !.err = ""]
    ELSE LET ts  == req.queries[i]
             run == searchHelper(acc.client, ss[i], req.ctx, ts.Region)
         IN  IF run.pc = "err"
             THEN [acc EXCEPT !.client = run.client, !.calls = @ \o run.calls,
                              !.err = "list metrircs failed"]
             ELSE lookupLoop([acc EXCEPT !.client = run.client,
                                         !.calls = @ \o run.calls,
                                         !.rows = lookupRows(type, run.items, perm)],
                             req, type, ss, perm, i + 1)

lookupResponse(oo, req, type, ss, perm) ==
    LET r == lookupLoop([client |-> oo.metricsClient, calls |-> <<>>,
                         rows |-> <<>>, err |-> ""], req, type, ss, perm, 1)
    IN  Outcome([oo EXCEPT !.metricsClient = r.client], r.calls,
                IF r.err # "" THEN ErrResp(r.err)
                ELSE [NoResp EXCEPT !.refId = type, !.rows = r.rows],
                "up", FALSE)

\* what ListRegions answers: an error, or the regions the tenancy is
\* subscribed to at the time of the call
RegionAnswers ==
    {[err |-> TRUE, Items |-> <<>>],
     [err |-> FALSE, Items |-> <<"us-phoenix-1">>],
     [err |-> FALSE, Items |-> <<"us-phoenix-1", "us-ashburn-1">>]}

\* regionsResponse's rows: the name of each region
regionRows(items) == [i \in 1..Len(items) |-> items[i]]

\* regionsResponse's loop from query i on; answers[i]: what ListRegions
\* answers to the call of query i
RECURSIVE regionsLoop(_, _, _, _, _)
regionsLoop(acc, oo, req, answers, i) ==
    IF i > Len(req.queries) THEN acc
    ELSE LET ts   == req.queries[i]
             call == Call("ListRegions", oo.identityClient, req.ctx, ts.Region, NilPage)
         IN  IF answers[i].err
             THEN [acc EXCEPT !.calls = Append(@, call),
                              !.err = "error fetching regions"]
             ELSE regionsLoop([acc EXCEPT !.calls = Append(@, call),
                                          !.rows = regionRows(answers[i].Items)],
                              oo, req, answers, i + 1)

regionsResponse(oo, req, answers) ==
    LET r == regionsLoop([calls |-> <<>>, rows |-> <<>>, err |-> ""],
                         oo, req, answers, 1)
    IN  Outcome(oo, r.calls,
                IF r.err # "" THEN ErrResp(r.err)
                ELSE [NoResp EXCEPT !.refId = "regions", !.rows = r.rows],
                "up", FALSE)

\* testResponse; answer: "ok" (a 2xx status), "status" (an error with an HTTP
\* status outside 2xx) or "none" (an error without an HTTP response, whose
\* res.RawResponse is nil: reading its StatusCode panics)
TestAnswers == {"ok", "status", "none"}

testResponse(oo, req, answer) ==
    LET ts     == req.queries[1]
        client == SetRegion(oo.metricsClient, StringToRegion(ts.Region))
        call   == Call("ListMetrics", client, req.ctx, ts.Region, NilPage)
        o2     == [oo EXCEPT !.metricsClient = client]
    IN  IF answer = "none" THEN Outcome(o2, <<call>>, NoResp, "panicked", FALSE)
        ELSE IF answer = "ok" THEN Outcome(o2, <<call>>, NoResp, "up", FALSE)
        ELSE Outcome(o2, <<call>>, ErrResp("list metrircs failed"), "up", FALSE)

\* the items a summarize-metrics-data call returns: one item, one dimension
SummarizedItems ==
    <<[Name |-> BaseName,
       Dimensions |-> [k \in {<<"a", "N", "a", "m", "e">>} |-> <<"v">>]]>>

\* queryResponse's first loop from query i on; fails[i]: whether
\* SummarizeMetricsData fails for query i. acc = [client, calls, results, err]
RECURSIVE summarizeLoop(_, _, _, _)
summarizeLoop(acc, req, fails, i) ==
    IF i > Len(req.queries) THEN acc
    ELSE LET ts     == req.queries[i]
             client == SetRegion(acc.client, StringToRegion(ts.Region))
             call   == Call("SummarizeMetricsData", client, req.ctx, ts.Region, NilPage)
         IN  IF fails[i]
             THEN [acc EXCEPT !.client = client, !.calls = Append(@, call),
                              !.results = <<>>,
                              !.err = "summarize metrics data failed"]
             ELSE summarizeLoop(
                      [acc EXCEPT !.client = client, !.calls = Append(@, call),
                                  !.results = Append(@, [ociRes |-> SummarizedItems,
                                                         query |-> i, err |-> ""])],
                      req, fails, i + 1)

\* queryResponse's second loop: one QueryResult per collected response
queryResult(q) ==
    IF q.err # ""
    THEN [RefId |-> q.query, Error |-> q.err, Series |-> <<>>]
    ELSE [RefId |-> q.query, Error |-> "",
          Series |-> [j \in 1..Len(q.ociRes) |->
                         seriesName(q.ociRes[j],
                                    InOrder(<<<<"a", "N", "a", "m", "e">>>>,
                                            DOMAIN q.ociRes[j].Dimensions))]]

queryResponse(oo, req, fails) ==
    LET r == summarizeLoop([client |-> oo.metricsClient, calls |-> <<>>,
                            results |-> <<>>, err |-> ""], req, fails, 1)
    IN  Outcome([oo EXCEPT !.metricsClient = r.client], r.calls,
                IF r.err # "" THEN ErrResp(r.err)
                ELSE [NoResp EXCEPT
                        !.results = [k \in 1..Len(r.results) |-> queryResult(r.results[k])]],
                "up", FALSE)

\* the switch of Query
handlerOf(queryType) ==
    CASE queryType = "compartments" -> "compartmentsResponse"
      [] queryType = "dimensions" -> "dimensionResponse"
      [] queryType = "namespaces" -> "namespaceResponse"
      [] queryType = "resourcegroups" -> "resourcegroupsResponse"
      [] queryType = "regions" -> "regionsResponse"
      [] queryType = "search" -> "searchResponse"
      [] queryType = "test" -> "testResponse"
      [] OTHER -> "queryResponse"

\* the requests that may arrive. The environment is a setting of the
\* datasource, which Query reads only while the instance has no config; the
\* handlers of "compartments" and "test" read Queries[0] alone, and their
\* requests carry that one query
Arriving(types) ==
    UNION {{r \in Requests(type, Context(hist.requests + 1)) :
               /\ o.config # NilConfig => r.queries[1].Environment = "local"
               /\ type \in {"compartments", "test"} => Len(r.queries) = 1} :
           type \in types}

\* the SDK constructors all succeeding
BootOk == [instanceOk |-> TRUE, metricsOk |-> TRUE, identityOk |-> TRUE]

\* the orders the handlers' map ranges take: ascending and descending ids
HandlerOrders ==
    {[i \in 1..(MaxCompartments + 1) |-> i - 1],
     [i \in 1..(MaxCompartments + 1) |-> MaxCompartments + 1 - i]}

NoRequest == [ctx |-> Background, queries |-> <<>>]

Init ==
    /\ o = [config |-> NilConfig, metricsClient |-> NoClient,
            identityClient |-> NoClient, nameToOCID |-> EmptyMap,
            timeCacheUpdated |-> 0]
    /\ now = 1
    /\ last = [handler |-> "none", req |-> NoRequest, configBefore |-> NilConfig,
               attempted |-> FALSE, calls |-> <<>>, resp |-> NoResp, at |-> 0,
               prevRebuildAt |-> Never, rebuilt |-> FALSE, fails |-> <<>>]
    /\ hist = [requests |-> 0, rebuiltAt |-> Never, status |-> "up"]
    /\ sh = Off /\ srv = Off /\ gc = Off /\ listing = Off /\ nm = Off

\* Query returns: the instance, the record of the call and the history move
\* on. fails: what the services answered to the handler's queries, kept for
\* the claims (the failures of the summarize calls, the answers to the lookups)
Finish(req, b, handler, out, fails) ==
    /\ o' = out.o
    /\ last' = [handler |-> handler, req |-> req, configBefore |-> o.config,
                attempted |-> b.attempted, calls |-> out.calls, resp |-> out.resp,
                at |-> now, prevRebuildAt |-> hist.rebuiltAt,
                rebuilt |-> out.rebuilt, fails |-> fails]
    /\ hist' = [requests |-> hist.requests + 1,
                rebuiltAt |-> IF out.rebuilt THEN now ELSE hist.rebuiltAt,
                status |-> out.status]

Ready == hist.status = "up" /\ hist.requests < MaxRequests

Tick ==
    /\ hist.status = "up"
    /\ now + TickSeconds <= MaxTime
    /\ now' = now + TickSeconds
    /\ UNCHANGED <<o, last, hist, sh, srv, gc, listing, nm>>

\* Query, the bootstrap failing: no handler runs
QueryBootstrapFails ==
    /\ Ready
    /\ o.config = NilConfig
    /\ \E req \in Arriving(QueryTypes), boot \in Boots :
          LET b == bootstrap(Arrive(o), req.queries[1].Environment, boot)
          IN  /\ b.err # "" \/ b.panic
              /\ Finish(req, b, "none",
                        Outcome(b.o, <<>>, ErrResp(b.err),
                                IF b.panic THEN "panicked" ELSE "up", FALSE),
                        <<>>)
    /\ UNCHANGED <<now, sh, srv, gc, listing, nm>>

\* the requests Query dispatches to `handlers`, the bootstrap done or succeeding
Dispatched(handlers) ==
    {r \in Arriving(QueryTypes) :
        /\ handlerOf(r.queries[1].QueryType) \in handlers
        /\ bootstrap(Arrive(o), r.queries[1].Environment, BootOk).err = ""}

Booted(req) == bootstrap(Arrive(o), req.queries[1].Environment, BootOk)

QueryCompartments ==
    /\ Ready
    /\ \E req \in Dispatched({"compartmentsResponse"}), lst \in HandlerListings,
          size \in 1..MaxPageSize, perm \in HandlerOrders, failAt \in 0..2 :
          Finish(req, Booted(req), "compartmentsResponse",
                 compartmentsResponse(Booted(req).o, req, now, lst, size, perm, failAt),
                 <<>>)
    /\ UNCHANGED <<now, sh, srv, gc, listing, nm>>

QueryLookup ==
    /\ Ready
    /\ \E req \in Dispatched({"dimensionResponse", "namespaceResponse",
                              "resourcegroupsResponse", "searchResponse"}) :
       \E ss \in [1..Len(req.queries) -> HandlerServices],
          perm \in IF req.queries[1].QueryType = "dimensions"
                   THEN DimensionOrders ELSE {<<"ad", "fd">>} :
          Finish(req, Booted(req), handlerOf(req.queries[1].QueryType),
                 lookupResponse(Booted(req).o, req, req.queries[1].QueryType,
                                ss, perm),
                 [answers |-> ss, perm |-> perm])
    /\ UNCHANGED <<now, sh, srv, gc, listing, nm>>

QueryRegions ==
    /\ Ready
    /\ \E req \in Dispatched({"regionsResponse"}) :
       \E answers \in [1..Len(req.queries) -> RegionAnswers] :
          Finish(req, Booted(req), "regionsResponse",
                 regionsResponse(Booted(req).o, req, answers),
                 [answers |-> answers, perm |-> <<>>])
    /\ UNCHANGED <<now, sh, srv, gc, listing, nm>>

QueryTest ==
    /\ Ready
    /\ \E req \in Dispatched({"testResponse"}), answer \in TestAnswers :
          Finish(req, Booted(req), "testResponse",
                 testResponse(Booted(req).o, req, answer), <<>>)
    /\ UNCHANGED <<now, sh, srv, gc, listing, nm>>

QueryMetrics ==
    /\ Ready
    /\ \E req \in Dispatched({"queryResponse"}) :
       \E fails \in [1..Len(req.queries) -> BOOLEAN] :
          Finish(req, Booted(req), "queryResponse",
                 queryResponse(Booted(req).o, req, fails), fails)
    /\ UNCHANGED <<now, sh, srv, gc, listing, nm>>

Next ==
    \/ Tick
    \/ QueryBootstrapFails
    \/ QueryCompartments
    \/ QueryLookup
    \/ QueryRegions
    \/ QueryTest
    \/ QueryMetrics

Spec == Init /\ [][Next]_vars

----------------------------------------------------------------------------
(* Claims about Query and its handlers, under Spec *)

Handled == hist.requests > 0
FirstQuery == last.req.queries[1]

\* C1: compartmentsResponse calls getCompartments only when no rebuild of the
\* cache has happened yet or more than cacheRefreshTime has passed since the
\* last one; within that minute it answers from the cache, with no API call.
C1_RebuildOnlyWhenStale ==
    (Handled /\ last.handler = "compartmentsResponse" /\ last.calls # <<>>) =>
        \/ last.prevRebuildAt = Never
        \/ last.at - last.prevRebuildAt > cacheRefreshTime

\* C5: when summarize-metrics-data fails for a query of a multi-query batch,
\* queryResponse still returns one result per query: the failed query's with
\* its Error set and no series, the others' with their series.
C5_ErrorPerQuery ==
    (/\ Handled /\ last.handler = "queryResponse"
     /\ Len(last.req.queries) >= 2
     /\ \E i \in DOMAIN last.fails : last.fails[i]) =>
        /\ last.resp.err = ""
        /\ Len(last.resp.results) = Len(last.req.queries)
        /\ Len(last.calls) = Len(last.req.queries)
        /\ \A i \in DOMAIN last.resp.results :
              IF last.fails[i]
              THEN last.resp.results[i].Error # "" /\ last.resp.results[i].Series = <<>>
              ELSE last.resp.results[i].Error = "" /\ last.resp.results[i].Series # <<>>

\* C6: every outbound API call of a request carries the context the host
\* passed to Query for that request.
C6_HostContextOnEveryCall ==
    \A i \in DOMAIN last.calls : last.calls[i].ctx = last.req.ctx

\* C7: every outbound API call of a request is issued on a client whose
\* region was set, earlier in that request, to the region the request names.
C7_RegionSetBeforeEveryCall ==
    \A i \in DOMAIN last.calls :
        last.calls[i].regionSet /\ last.calls[i].region = last.calls[i].want

\* C9: a Query with an unknown Environment on an instance without config
\* returns a configuration error, runs no handler, issues no call and leaves
\* config and both clients unset; any Query on an instance without config
\* attempts the bootstrap.
C9_UnknownEnvironment ==
    (Handled /\ last.configBefore = NilConfig) =>
        /\ last.attempted
        /\ FirstQuery.Environment \notin {"local", "OCI Instance"} =>
              /\ last.resp.err = "broken environment"
              /\ last.handler = "none"
              /\ last.calls = <<>>
              /\ o.config = NilConfig
              /\ o.metricsClient = NoClient
              /\ o.identityClient = NoClient

\* the second of two requests with an unknown Environment, both refused
C9_Witness ==
    /\ hist.requests = 2
    /\ last.configBefore = NilConfig
    /\ FirstQuery.Environment = "cloud"
    /\ last.attempted
    /\ last.resp.err = "broken environment"
    /\ o.config = NilConfig

\* the handlers that iterate the batch and fill one table
LookupHandlers ==
    {"dimensionResponse", "namespaceResponse", "resourcegroupsResponse",
     "searchResponse", "regionsResponse"}

BatchSize == Len(last.req.queries)

\* every API call of the batch succeeded
AllCallsSucceed ==
    \A i \in 1..BatchSize :
        IF last.handler = "regionsResponse"
        THEN ~last.fails.answers[i].err
        ELSE last.fails.answers[i].failAt = 0

\* the items the service of query i holds, page after page
ServedItems(i) ==
    Flatten([p \in 1..last.fails.answers[i].numPages |-> PageItems(p)])

\* the rows query i of the batch produces
RowsOfQuery(i) ==
    IF last.handler = "regionsResponse"
    THEN regionRows(last.fails.answers[i].Items)
    ELSE lookupRows(FirstQuery.QueryType, ServedItems(i), last.fails.perm)

\* the calls query i of the batch needs: one ListRegions, or one ListMetrics
\* for each page of its service, each in the region the query names
CallsOfQuery(i) ==
    IF last.handler = "regionsResponse"
    THEN <<[api |-> "ListRegions", page |-> NilPage,
            want |-> StringToRegion(last.req.queries[i].Region)]>>
    ELSE [p \in 1..last.fails.answers[i].numPages |->
             [api |-> "ListMetrics", page |-> IF p = 1 THEN NilPage ELSE p,
              want |-> StringToRegion(last.req.queries[i].Region)]]

\* the calls issued, as the services saw them
CallsIssued ==
    [j \in 1..Len(last.calls) |->
        [api |-> last.calls[j].api, page |-> last.calls[j].page,
         want |-> last.calls[j].want]]

\* C11: a lookup handler that iterates a batch of k >= 1 queries whose API
\* calls all succeed returns one table holding exactly the rows of the last
\* query of the batch; the rows of earlier queries are discarded, and the calls
\* of all the queries are issued, in batch order.
C11_LastQueryWins ==
    (/\ Handled /\ last.handler \in LookupHandlers
     /\ BatchSize >= 1 /\ AllCallsSucceed) =>
        /\ last.resp.err = ""
        /\ last.resp.refId = FirstQuery.QueryType
        /\ last.resp.rows = RowsOfQuery(BatchSize)
        /\ CallsIssued = Flatten([i \in 1..BatchSize |-> CallsOfQuery(i)])

\* a batch of two succeeding search queries in different regions, the first
\* of which produced rows the table does not hold
C11_Witness ==
    /\ Handled /\ last.handler = "searchResponse"
    /\ BatchSize = 2 /\ AllCallsSucceed
    /\ last.req.queries[1].Region # last.req.queries[2].Region
    /\ last.resp.rows # <<>>
    /\ \E r \in Range(RowsOfQuery(1)) : r \notin Range(last.resp.rows)

====
